---- MODULE Spec2Model ----
(***************************************************************************)
(* Backend proxy / mutation layer of the Data Governance Console           *)
(* (src/actions/userActions.ts).  Every exported async function is a call  *)
(* that runs up to its `await fetch(...)`, is suspended while the request   *)
(* is in flight, and is resumed with the backend's answer (an HTTP         *)
(* response, or a rejected fetch).  The effects of one invocation (the     *)
(* requests issued, revalidatePath and redirect calls) are logged in       *)
(* order in `effects`; what the caller observes is `outcome`.              *)
(***************************************************************************)
EXTENDS Integers, Sequences, FiniteSets, TLC

VARIABLES
    pc,       \* "idle" | "awaiting" (fetch in flight) | "done"
    op,       \* name of the function being invoked
    args,     \* its arguments
    resp,     \* the answer of the backend to the fetch, once received
    effects,  \* ordered log of fetch / revalidatePath / redirect calls
    outcome,  \* what the caller observes: pending, return value, or raise
    dataCache, \* the framework's cache of fetch responses
    version,  \* number of user mutations the backend has applied
    served,   \* how the last awaited fetch was resolved
    reads,    \* the reads a page render has started and awaits together
    sessions, \* browser sessions showing the list page
    backendUsers \* the users the backend holds, as written by this layer

cacheVars == <<dataCache, version, served>>
viewVars == <<reads, sessions, backendUsers>>
vars ==
    <<pc, op, args, resp, effects, outcome, dataCache, version, served,
      reads, sessions, backendUsers>>

----------------------------------------------------------------------------
(* Bounds of the model *)

MaxLen == 2        \* longest `page` query string, in characters
MaxPages == 2      \* largest totalPages / number a backend answer carries
MaxEntries == 4    \* most entries of a submitted FormData

----------------------------------------------------------------------------
(* JavaScript values *)

JUndefined == [t |-> "undefined"]
JNull == [t |-> "null"]
JBool(b) == [t |-> "bool", v |-> b]
JStr(s) == [t |-> "str", v |-> s]
JArr(s) == [t |-> "arr", v |-> s]
JObj(r) == [t |-> "obj", v |-> r]

\* An optional field of a parsed JSON object: <<>> when the field is
\* missing (or null), <<v>> when it carries v.
Absent == <<>>
Some(v) == <<v>>
IsAbsent(o) == Len(o) = 0

\* a ?? b
Coalesce(o, d) == IF IsAbsent(o) THEN d ELSE o[1]

----------------------------------------------------------------------------
(* Strings as character sequences, and the Number() conversion *)

Chars == {"0", "1", "-", "a", " "}
DigitChars == <<"0", "1", "2", "3", "4", "5", "6", "7", "8", "9">>

IsDigit(c) == \E i \in 1..Len(DigitChars) : DigitChars[i] = c
DigitVal(c) == (CHOOSE i \in 1..Len(DigitChars) : DigitChars[i] = c) - 1

RECURSIVE StringsUpTo(_)
StringsUpTo(n) ==
    IF n = 0 THEN {<<>>}
    ELSE LET shorter == StringsUpTo(n - 1)
         IN shorter \cup {Append(s, c) : s \in shorter, c \in Chars}

RECURSIVE TrimLeft(_)
TrimLeft(s) ==
    IF s # <<>> /\ Head(s) = " " THEN TrimLeft(Tail(s)) ELSE s

RECURSIVE TrimRight(_)
TrimRight(s) ==
    IF s # <<>> /\ s[Len(s)] = " " THEN TrimRight(SubSeq(s, 1, Len(s) - 1))
    ELSE s

RECURSIVE DigitsValue(_)
DigitsValue(s) ==
    IF s = <<>> THEN 0
    ELSE 10 * DigitsValue(SubSeq(s, 1, Len(s) - 1)) + DigitVal(s[Len(s)])

AllDigits(s) == s # <<>> /\ \A i \in 1..Len(s) : IsDigit(s[i])

NaN == [t |-> "nan"]
Num(n) == [t |-> "num", v |-> n]

\* Number(x) of ECMAScript for x undefined or a string: undefined is NaN,
\* white space is trimmed, the empty string is 0, an optionally signed run
\* of decimal digits is its value, anything else is NaN.
Number(x) ==
    IF x.t = "undefined" THEN NaN
    ELSE LET s == TrimRight(TrimLeft(x.v))
         IN IF s = <<>> THEN Num(0)
            ELSE IF AllDigits(s) THEN Num(DigitsValue(s))
            ELSE IF Head(s) = "-" /\ AllDigits(Tail(s))
                 THEN Num(0 - DigitsValue(Tail(s)))
            ELSE NaN

\* n || 0 for a number n: NaN and 0 are falsy.
OrZero(n) == IF n.t = "nan" \/ n.v = 0 THEN 0 ELSE n.v

RECURSIVE NatToStr(_)
NatToStr(n) ==
    IF n < 10 THEN <<DigitChars[n + 1]>>
    ELSE Append(NatToStr(n \div 10), DigitChars[(n % 10) + 1])

\* `${n}` for an integer n
NumToStr(n) == IF n < 0 THEN <<"-">> \o NatToStr(0 - n) ELSE NatToStr(n)

----------------------------------------------------------------------------
(* Requests, responses, effects, outcomes *)

\* A URL or view path is the sequence of its segments: "/users" is
\* <<"users">>, "/users/7" is <<"users", "7">>, "/users/" is <<"users", "">>.
Url(path, query) == [path |-> path, query |-> query]
NoQuery == <<>>

Fetch(method, url, body, cache) ==
    [e |-> "fetch", method |-> method, url |-> url, body |-> body,
     cache |-> cache]
RevalidatePath(path) == [e |-> "revalidatePath", path |-> path]
Redirect(url) == [e |-> "redirect", url |-> url]

NoBody == JUndefined
\* JSON.stringify of an object literal: its members in source order
Stringify(members) == JStr(members)
Member(k, v) == [key |-> k, val |-> v]

Reject == [kind |-> "reject"]
\* An HTTP response: its status, the raw text of its body (res.text()),
\* whether the body is JSON (res.json() resolves) and, if so, the parsed
\* value.
Http(status, text, parses, data) ==
    [kind |-> "http", status |-> status, text |-> text, parses |-> parses,
     data |-> data]
\* res.ok
Ok(r) == r.kind = "http" /\ r.status \in 200..299

Statuses == {200, 404, 500}
Texts == {"", "boom"}

Pending == [kind |-> "pending"]
Return(v) == [kind |-> "return", value |-> v]
Raise(msg) == [kind |-> "raise", message |-> msg]

\* the error a rejected fetch raises, and the one res.json() raises on a
\* body that is not JSON
FetchError == <<"TypeError: fetch failed">>
ParseError == <<"SyntaxError: Unexpected token">>

Ids == {"", "1", "2"}

NoResp == [kind |-> "none"]
\* the function with no argument: no read, no session, no user
None == [x \in {} |-> x]
NotServed ==
    [fromCache |-> FALSE, age |-> 0, url |-> Url(<<>>, NoQuery),
     bypassed |-> "none"]

Init ==
    /\ pc = "idle"
    /\ op = "none"
    /\ args = JUndefined
    /\ resp = NoResp
    /\ effects = <<>>
    /\ outcome = Pending
    /\ dataCache = {}
    /\ version = 0
    /\ served = NotServed
    /\ reads = None
    /\ sessions = None
    /\ backendUsers = None

\* The function runs to its first await: the request is issued.
Issue(name, a, request) ==
    /\ pc = "idle"
    /\ pc' = "awaiting"
    /\ op' = name
    /\ args' = a
    /\ resp' = NoResp
    /\ effects' = <<request>>
    /\ outcome' = Pending
    /\ UNCHANGED <<cacheVars, viewVars>>

\* The function ends before any await (local validation).
EndEarly(name, a, result) ==
    /\ pc = "idle"
    /\ pc' = "done"
    /\ op' = name
    /\ args' = a
    /\ resp' = NoResp
    /\ effects' = <<>>
    /\ outcome' = result
    /\ UNCHANGED <<cacheVars, viewVars>>

Awaiting(name) == pc = "awaiting" /\ op = name

\* The awaited fetch settles with r and the function runs to its end,
\* performing `more` and ending with `result`.
Complete(name, r, more, result) ==
    /\ Awaiting(name)
    /\ pc' = "done"
    /\ resp' = r
    /\ effects' = effects \o more
    /\ outcome' = result
    /\ UNCHANGED <<op, args>>

\* The same, with the backend answering directly: nothing is cached.
Settle(name, r, more, result) ==
    /\ Complete(name, r, more, result)
    /\ UNCHANGED <<cacheVars, viewVars>>

\* The caller has observed the outcome; the next invocation may start.
Finish ==
    /\ pc = "done"
    /\ pc' = "idle"
    /\ op' = "none"
    /\ args' = JUndefined
    /\ resp' = NoResp
    /\ effects' = <<>>
    /\ outcome' = Pending
    /\ UNCHANGED <<cacheVars, viewVars>>

----------------------------------------------------------------------------
(* getUsers *)

size == 5

PageParams == {JUndefined} \cup {JStr(s) : s \in StringsUpTo(MaxLen)}
\* the searchParams argument: undefined, or an object whose page is a
\* string or undefined
SearchParams == {JUndefined} \cup {JObj([page |-> p]) : p \in PageParams}

\* faulty variant: the default searchParams name the page "1"
pageParam_DefaultOne(searchParams) ==
    IF searchParams.t = "undefined" THEN JStr(<<"1">>)
    ELSE searchParams.v.page

\* (await searchParams) || { page: "0" }, then its page
pageParam(searchParams) ==
    IF searchParams.t = "undefined" THEN JStr(<<"0">>)
    ELSE searchParams.v.page

currentPage(searchParams) == OrZero(Number(pageParam(searchParams)))

getUsers_Request(searchParams) ==
    Fetch("GET",
          Url(<<"api", "v1", "users">>,
              <<Member("page", NumToStr(currentPage(searchParams))),
                Member("size", NumToStr(size))>>),
          NoBody, "revalidate")

Users == {<<>>, <<"u1">>}
PageData ==
    [content : {Absent} \cup {Some(u) : u \in Users},
     totalPages : {Absent} \cup {Some(n) : n \in 0..MaxPages},
     first : {Absent} \cup {Some(b) : b \in BOOLEAN},
     last : {Absent} \cup {Some(b) : b \in BOOLEAN},
     number : {Absent} \cup {Some(n) : n \in 0..MaxPages}]

getUsers_Responses ==
    {Reject} \cup {Http(s, t, FALSE, Absent) : s \in Statuses, t \in Texts}
             \cup {Http(200, "json", TRUE, Some(d)) : d \in PageData}

\* faulty variant: `||` instead of `??` for the first and last flags
getUsers_Page_OrFlags(cur, data) ==
    [users |-> Coalesce(data.content, <<>>),
     totalPages |-> Coalesce(data.totalPages, 1),
     isFirst |-> (Coalesce(data.first, FALSE) \/ cur = 0),
     isLast |-> (Coalesce(data.last, FALSE)
                    \/ cur + 1 >= Coalesce(data.totalPages, 1)),
     pageNumber |-> Coalesce(data.number, cur),
     size |-> size]

getUsers_Page(cur, data) ==
    [users |-> Coalesce(data.content, <<>>),
     totalPages |-> Coalesce(data.totalPages, 1),
     isFirst |-> Coalesce(data.first, cur = 0),
     isLast |-> Coalesce(data.last, cur + 1 >= Coalesce(data.totalPages, 1)),
     pageNumber |-> Coalesce(data.number, cur),
     size |-> size]

getUsers_Result(searchParams, r) ==
    IF r.kind = "reject" THEN Raise(FetchError)
    ELSE IF ~Ok(r) THEN Raise(<<"Failed to fetch users">>)
    ELSE IF ~r.parses THEN Raise(ParseError)
    ELSE Return(JObj(getUsers_Page(currentPage(searchParams), r.data[1])))

\* The copy of getUsers kept in lib/api: the page is Number(pageParam),
\* without `|| 0`.
lib_getUsers_Request(searchParams) ==
    LET cur == Number(pageParam(searchParams))
    IN Fetch("GET",
             Url(<<"api", "v1", "users">>,
                 <<Member("page", IF cur.t = "nan" THEN <<"N", "a", "N">>
                                  ELSE NumToStr(cur.v)),
                   Member("size", NumToStr(size))>>),
             NoBody, "revalidate")

\* NaN === 0 and NaN + 1 >= n are false; data.number ?? NaN is NaN
lib_getUsers_Page(cur, data) ==
    [users |-> Coalesce(data.content, <<>>),
     totalPages |-> Coalesce(data.totalPages, 1),
     isFirst |-> Coalesce(data.first, cur.t = "num" /\ cur.v = 0),
     isLast |-> Coalesce(data.last,
                         /\ cur.t = "num"
                         /\ cur.v + 1 >= Coalesce(data.totalPages, 1)),
     pageNumber |-> Coalesce(data.number,
                             IF cur.t = "num" THEN cur.v ELSE NaN),
     size |-> size]

lib_getUsers_Result(searchParams, r) ==
    IF r.kind = "reject" THEN Raise(FetchError)
    ELSE IF ~Ok(r) THEN Raise(<<"Failed to fetch users">>)
    ELSE IF ~r.parses THEN Raise(ParseError)
    ELSE Return(JObj(lib_getUsers_Page(Number(pageParam(searchParams)),
                                       r.data[1])))

getUsers_Call ==
    /\ pc = "idle"
    /\ \E sp \in SearchParams :
           Issue("getUsers", [searchParams |-> sp], getUsers_Request(sp))

getUsers_Resume ==
    /\ Awaiting("getUsers")
    /\ \E r \in getUsers_Responses :
           Settle("getUsers", r, <<>>, getUsers_Result(args.searchParams, r))


----------------------------------------------------------------------------
(* getAllUsers *)

UserPayloads == {[id |-> "1", name |-> "A"], [id |-> "2", name |-> "B"]}

\* answers to a request whose OK body is one of `payloads`
Responses(payloads) ==
    {Reject} \cup {Http(s, t, FALSE, Absent) : s \in Statuses, t \in Texts}
             \cup {Http(200, "json", TRUE, Some(d)) : d \in payloads}

\* `return res.json()`: the parsed body, or the rejection of res.json()
\* (tag: "obj" for a JSON object, "arr" for a JSON array)
ReturnJson(r, tag) ==
    IF r.parses THEN Return([t |-> tag, v |-> r.data[1]])
    ELSE Raise(ParseError)

getAllUsers_Request ==
    Fetch("GET", Url(<<"api", "v1", "users">>, NoQuery), NoBody, "no-store")

getAllUsers_Result(r) ==
    IF r.kind = "reject" THEN Raise(FetchError)
    ELSE IF ~Ok(r) THEN Raise(<<"Failed to fetch all users">>)
    ELSE ReturnJson(r, "arr")

getAllUsers_Call ==
    /\ pc = "idle"
    /\ Issue("getAllUsers", JUndefined, getAllUsers_Request)

getAllUsers_Resume ==
    /\ Awaiting("getAllUsers")
    /\ \E r \in Responses({<<>>, <<"u1">>}) :
           Settle("getAllUsers", r, <<>>, getAllUsers_Result(r))

----------------------------------------------------------------------------
(* deleteUserFromHome, deleteUser *)

DeleteRequest(id) ==
    Fetch("DELETE", Url(<<"api", "v1", "users", id>>, NoQuery), NoBody,
          "default")

\* faulty variant: a failed DELETE is sent again
deleteUserFromHome_Effects_Retry(r) ==
    IF Ok(r) THEN <<RevalidatePath(<<"users">>)>> ELSE <<effects[1]>>

deleteUserFromHome_Effects(r) ==
    IF Ok(r) THEN <<RevalidatePath(<<"users">>)>> ELSE <<>>

\* faulty variant: the message does not name the status
deleteUserFromHome_Result_NoStatus(r) ==
    IF r.kind = "reject" THEN Raise(FetchError)
    ELSE IF ~Ok(r) THEN Raise(<<"Delete failed">>)
    ELSE Return(JUndefined)

deleteUserFromHome_Result(r) ==
    IF r.kind = "reject" THEN Raise(FetchError)
    ELSE IF ~Ok(r)
         THEN Raise(<<"Delete failed (">> \o NumToStr(r.status) \o <<")">>)
    ELSE Return(JUndefined)

deleteUserFromHome_Call ==
    /\ pc = "idle"
    /\ \E id \in Ids :
           IF id = ""
           THEN EndEarly("deleteUserFromHome", [id |-> id],
                         Raise(<<"User ID required">>))
           ELSE Issue("deleteUserFromHome", [id |-> id], DeleteRequest(id))

deleteUserFromHome_Resume ==
    /\ Awaiting("deleteUserFromHome")
    /\ \E r \in Responses({"deleted"}) :
           Settle("deleteUserFromHome", r, deleteUserFromHome_Effects(r),
                  deleteUserFromHome_Result(r))

\* faulty variant: redirect() before revalidatePath(): the navigation ends the
\* function and the invalidation is never signalled
deleteUser_Effects_RedirectFirst(r) ==
    IF Ok(r)
    THEN <<Redirect(Url(<<"users">>, <<Member("page", <<"0">>)>>))>>
    ELSE <<>>

\* redirect() is logged as a navigation; the framework's control-flow signal
\* it raises is not an error of the function, which ends without a value.
deleteUser_Effects(r) ==
    IF Ok(r)
    THEN <<RevalidatePath(<<"users">>),
           Redirect(Url(<<"users">>, <<Member("page", <<"0">>)>>))>>
    ELSE <<>>

deleteUser_Result(r) ==
    IF r.kind = "reject" THEN Raise(FetchError)
    ELSE IF ~Ok(r)
         THEN Raise(<<"Delete failed (">> \o NumToStr(r.status) \o <<")">>)
    ELSE Return(JUndefined)

\* faulty variant: the id is not validated
deleteUser_Validate_None(id) == TRUE

deleteUser_Validate(id) == id # ""

deleteUser_Call ==
    /\ pc = "idle"
    /\ \E id \in Ids :
           IF ~deleteUser_Validate(id)
           THEN EndEarly("deleteUser", [id |-> id], Raise(<<"User ID required">>))
           ELSE Issue("deleteUser", [id |-> id], DeleteRequest(id))

deleteUser_Resume ==
    /\ Awaiting("deleteUser")
    /\ \E r \in Responses({"deleted"}) :
           Settle("deleteUser", r, deleteUser_Effects(r), deleteUser_Result(r))

----------------------------------------------------------------------------
(* getUserById, getUserPreferences, getUserPosts *)

\* faulty variant: the response may be reused for the list's window
getUserById_Request_Revalidate(id) ==
    Fetch("GET", Url(<<"api", "v1", "users", id>>, NoQuery), NoBody,
          "revalidate")

getUserById_Request(id) ==
    Fetch("GET", Url(<<"api", "v1", "users", id>>, NoQuery), NoBody,
          "no-store")

\* faulty variant: no try/catch around the fetch
getUserById_Result_NoCatch(r) ==
    IF r.kind = "reject" THEN Raise(FetchError)
    ELSE IF ~Ok(r) THEN Return(JNull)
    ELSE ReturnJson(r, "obj")

\* `return res.json()` is not awaited inside the try block: a rejection of
\* res.json() is not seen by the catch clause and reaches the caller.
getUserById_Result(r) ==
    IF r.kind = "reject" THEN Return(JNull)
    ELSE IF ~Ok(r) THEN Return(JNull)
    ELSE ReturnJson(r, "obj")

getUserById_Call ==
    /\ pc = "idle"
    /\ \E id \in Ids : Issue("getUserById", [id |-> id], getUserById_Request(id))

getUserById_Resume ==
    /\ Awaiting("getUserById")
    /\ \E r \in Responses(UserPayloads) :
           Settle("getUserById", r, <<>>, getUserById_Result(r))

PrefPayloads ==
    [theme : {"dark"}, error : {Absent, Some(""), Some("Not found")}]

\* truthiness of an optional string field
Truthy(o) == ~IsAbsent(o) /\ o[1] # ""

getUserPreferences_Request(id) ==
    Fetch("GET", Url(<<"api", "v1", "users", id, "preferences">>, NoQuery),
          NoBody, "no-store")

\* faulty variant: the payload's error field is not looked at
getUserPreferences_Result_NoErrorCheck(r) ==
    IF r.kind = "reject" THEN Return(JNull)
    ELSE IF ~Ok(r) THEN Return(JNull)
    ELSE IF ~r.parses THEN Return(JNull)
    ELSE Return(JObj(r.data[1]))

\* `await res.json()` inside the try block: its rejection is caught.
getUserPreferences_Result(r) ==
    IF r.kind = "reject" THEN Return(JNull)
    ELSE IF ~Ok(r) THEN Return(JNull)
    ELSE IF ~r.parses THEN Return(JNull)
    ELSE IF Truthy(r.data[1].error) THEN Return(JNull)
    ELSE Return(JObj(r.data[1]))

getUserPreferences_Call ==
    /\ pc = "idle"
    /\ \E id \in Ids :
           Issue("getUserPreferences", [id |-> id], getUserPreferences_Request(id))

getUserPreferences_Resume ==
    /\ Awaiting("getUserPreferences")
    /\ \E r \in Responses(PrefPayloads) :
           Settle("getUserPreferences", r, <<>>, getUserPreferences_Result(r))

PostPayloads == {<<>>, <<"p1">>, <<"p1", "p2">>}

getUserPosts_Request(id) ==
    Fetch("GET", Url(<<"api", "v1", "users", id, "posts">>, NoQuery), NoBody,
          "no-store")

\* faulty variant: null, as the other reads, when the answer is not OK
getUserPosts_Result_Null(r) ==
    IF r.kind = "reject" THEN Return(JArr(<<>>))
    ELSE IF ~Ok(r) THEN Return(JNull)
    ELSE ReturnJson(r, "arr")

getUserPosts_Result(r) ==
    IF r.kind = "reject" THEN Return(JArr(<<>>))
    ELSE IF ~Ok(r) THEN Return(JArr(<<>>))
    ELSE ReturnJson(r, "arr")

getUserPosts_Call ==
    /\ pc = "idle"
    /\ \E id \in Ids :
           Issue("getUserPosts", [id |-> id], getUserPosts_Request(id))

getUserPosts_Resume ==
    /\ Awaiting("getUserPosts")
    /\ \E r \in Responses(PostPayloads) :
           Settle("getUserPosts", r, <<>>, getUserPosts_Result(r))


----------------------------------------------------------------------------
(* addUser *)

\* A FormData is the sequence of its entries, in submission order.
Entry(name, value) == [name |-> name, value |-> value]
FormEntries ==
    {Entry("username", "pre"), Entry("username", ""),
     Entry("email", "pre@example.com"), Entry("name", "Pre"),
     Entry("roles", "ADMIN"), Entry("roles", "USER")}

RECURSIVE FormsUpTo(_)
FormsUpTo(n) ==
    IF n = 0 THEN {<<>>}
    ELSE LET shorter == FormsUpTo(n - 1)
         IN shorter \cup {Append(f, e) : f \in shorter, e \in FormEntries}

\* formData.getAll(name): the values of all entries of that name, in order
RECURSIVE FormGetAll(_, _)
FormGetAll(formData, name) ==
    IF formData = <<>> THEN <<>>
    ELSE IF Head(formData).name = name
         THEN <<JStr(Head(formData).value)>> \o FormGetAll(Tail(formData), name)
    ELSE FormGetAll(Tail(formData), name)

\* formData.get(name): the first such value, or null
FormGet(formData, name) ==
    LET all == FormGetAll(formData, name)
    IN IF all = <<>> THEN JNull ELSE Head(all)

\* faulty variant: the status is read from the form
addUser_Request_FormStatus(formData) ==
    Fetch("POST", Url(<<"api", "v1", "users">>, NoQuery),
          Stringify(<<Member("username", FormGet(formData, "username")),
                      Member("email", FormGet(formData, "email")),
                      Member("name", FormGet(formData, "name")),
                      Member("roles", JArr(FormGetAll(formData, "roles"))),
                      Member("status", FormGet(formData, "status"))>>),
          "default")

addUser_Request(formData) ==
    Fetch("POST", Url(<<"api", "v1", "users">>, NoQuery),
          Stringify(<<Member("username", FormGet(formData, "username")),
                      Member("email", FormGet(formData, "email")),
                      Member("name", FormGet(formData, "name")),
                      Member("roles", JArr(FormGetAll(formData, "roles"))),
                      Member("status", JStr("ACTIVE"))>>),
          "default")

\* faulty variant: no invalidation after the POST
addUser_Effects_None(r) == <<>>

addUser_Effects(r) ==
    IF Ok(r) THEN <<RevalidatePath(<<"users">>)>> ELSE <<>>

\* faulty variant: the catch clause rethrows
addUser_Result_Rethrow(r) ==
    IF r.kind = "reject" THEN Raise(FetchError)
    ELSE IF ~Ok(r)
         THEN Raise(<<"Failed to add user (">> \o NumToStr(r.status) \o <<")">>)
    ELSE Return(JObj([success |-> TRUE]))

\* both the rejected fetch and the error thrown on a non-OK response are
\* caught by the catch clause
addUser_Result(r) ==
    IF r.kind = "reject" \/ ~Ok(r)
    THEN Return(JObj([success |-> FALSE, error |-> "Failed to add user"]))
    ELSE Return(JObj([success |-> TRUE]))

addUser_Call ==
    /\ pc = "idle"
    /\ \E fd \in FormsUpTo(MaxEntries) :
           Issue("addUser", [formData |-> fd], addUser_Request(fd))

addUser_Resume ==
    /\ Awaiting("addUser")
    /\ \E r \in Responses(UserPayloads) :
           Settle("addUser", r, addUser_Effects(r), addUser_Result(r))

----------------------------------------------------------------------------
(* addUserAction *)

\* The text of a message as the sequence of its words and spaces (a word
\* is a run of characters that encodeURIComponent leaves alone).
MessageText(s) ==
    CASE s = "Failed to add user" ->
             <<"Failed", " ", "to", " ", "add", " ", "user">>
      [] s = "Unknown error" -> <<"Unknown", " ", "error">>

\* encodeURIComponent: a space becomes %20, unreserved characters stay
encodeURIComponent(text) ==
    [i \in 1..Len(text) |-> IF text[i] = " " THEN "%20" ELSE text[i]]

\* result.error ?? "Unknown error"
ErrorOrUnknown(result) ==
    IF "error" \in DOMAIN result THEN result.error ELSE "Unknown error"

addUserAction_Redirect(result) ==
    IF result.success
    THEN Redirect(Url(<<"users", "add">>, <<Member("success", <<"true">>)>>))
    ELSE Redirect(Url(<<"users", "add">>,
                      <<Member("error",
                               encodeURIComponent(
                                   MessageText(ErrorOrUnknown(result))))>>))

\* faulty variant: no navigation when addUser reports a failure
addUserAction_Effects_SuccessOnly(r) ==
    addUser_Effects(r)
        \o (IF addUser_Result(r).value.v.success
            THEN <<addUserAction_Redirect(addUser_Result(r).value.v)>>
            ELSE <<>>)

\* await addUser(formData), then redirect(...)
addUserAction_Effects(r) ==
    addUser_Effects(r) \o <<addUserAction_Redirect(addUser_Result(r).value.v)>>

\* redirect() ends the function without a value
addUserAction_Result(r) == Return(JUndefined)

addUserAction_Call ==
    /\ pc = "idle"
    /\ \E fd \in FormsUpTo(MaxEntries) :
           Issue("addUserAction", [formData |-> fd], addUser_Request(fd))

addUserAction_Resume ==
    /\ Awaiting("addUserAction")
    /\ \E r \in Responses(UserPayloads) :
           Settle("addUserAction", r, addUserAction_Effects(r),
                  addUserAction_Result(r))

----------------------------------------------------------------------------
(* toggleUserStatus *)

StatusValues == {"ACTIVE", "INACTIVE"}

\* faulty variant: the whole user is replaced with PUT
toggleUserStatus_Request_Put(id, status) ==
    Fetch("PUT", Url(<<"api", "v1", "users", id>>, NoQuery),
          Stringify(<<Member("id", JStr(id)), Member("status", JStr(status))>>),
          "default")

toggleUserStatus_Request(id, status) ==
    Fetch("PATCH", Url(<<"api", "v1", "users", id>>, NoQuery),
          Stringify(<<Member("status", JStr(status))>>), "default")

\* faulty variant: no invalidation after the PATCH
toggleUserStatus_Effects_None(r) == <<>>

toggleUserStatus_Effects(r) ==
    IF Ok(r) THEN <<RevalidatePath(<<"users">>)>> ELSE <<>>

\* faulty variant: the message names the status, not the backend's text
toggleUserStatus_Result_StatusOnly(r) ==
    IF r.kind = "reject" THEN Raise(FetchError)
    ELSE IF ~Ok(r)
         THEN Raise(<<"Failed to update status (">> \o NumToStr(r.status)
                        \o <<")">>)
    ELSE ReturnJson(r, "obj")

toggleUserStatus_Result(r) ==
    IF r.kind = "reject" THEN Raise(FetchError)
    ELSE IF ~Ok(r) THEN Raise(<<"Failed to update status: ", r.text>>)
    ELSE ReturnJson(r, "obj")

toggleUserStatus_Call ==
    /\ pc = "idle"
    /\ \E id \in Ids, status \in StatusValues :
           Issue("toggleUserStatus", [id |-> id, status |-> status],
                 toggleUserStatus_Request(id, status))

toggleUserStatus_Resume ==
    /\ Awaiting("toggleUserStatus")
    /\ \E r \in Responses(UserPayloads) :
           Settle("toggleUserStatus", r, toggleUserStatus_Effects(r),
                  toggleUserStatus_Result(r))

----------------------------------------------------------------------------
(* createUserPost, softDeletePost, createDefaultPreferences *)

Titles == {"", "T"}
Contents == {"", "C"}
PostIds == {"", "p1", "p2"}

createUserPost_Request(userId, title, content) ==
    Fetch("POST", Url(<<"api", "v1", "users", userId, "posts">>, NoQuery),
          Stringify(<<Member("title", JStr(title)),
                      Member("content", JStr(content))>>),
          "default")

\* faulty variant: the path is invalidated whatever the backend answered
createUserPost_Effects_Always(userId, r) ==
    <<RevalidatePath(<<"users", userId>>)>>

createUserPost_Effects(userId, r) ==
    IF Ok(r) THEN <<RevalidatePath(<<"users", userId>>)>> ELSE <<>>

\* faulty variant: the catch clause logs and returns false
createUserPost_Result_Swallow(r) ==
    IF r.kind = "reject" THEN Return(JBool(FALSE))
    ELSE IF ~Ok(r) THEN Return(JBool(FALSE))
    ELSE Return(JBool(TRUE))

\* the catch clause logs and rethrows
createUserPost_Result(r) ==
    IF r.kind = "reject" THEN Raise(FetchError)
    ELSE IF ~Ok(r) THEN Raise(<<"Failed to create post">>)
    ELSE Return(JBool(TRUE))

createUserPost_Call ==
    /\ pc = "idle"
    /\ \E userId \in Ids, title \in Titles, content \in Contents :
           Issue("createUserPost",
                 [userId |-> userId, title |-> title, content |-> content],
                 createUserPost_Request(userId, title, content))

createUserPost_Resume ==
    /\ Awaiting("createUserPost")
    /\ \E r \in Responses({"created"}) :
           Settle("createUserPost", r, createUserPost_Effects(args.userId, r),
                  createUserPost_Result(r))

softDeletePost_Request(postId) ==
    Fetch("DELETE", Url(<<"api", "v1", "posts", postId>>, NoQuery), NoBody,
          "default")

\* revalidatePath(`/users/`): the literal path with a trailing slash
softDeletePost_Effects(r) ==
    IF Ok(r) THEN <<RevalidatePath(<<"users", "">>)>> ELSE <<>>

softDeletePost_Result(r) ==
    IF r.kind = "reject" THEN Raise(FetchError)
    ELSE IF ~Ok(r)
         THEN Raise(<<"Failed to delete post (">> \o NumToStr(r.status)
                        \o <<")">>)
    ELSE Return(JBool(TRUE))

softDeletePost_Call ==
    /\ pc = "idle"
    /\ \E postId \in PostIds :
           Issue("softDeletePost", [postId |-> postId],
                 softDeletePost_Request(postId))

softDeletePost_Resume ==
    /\ Awaiting("softDeletePost")
    /\ \E r \in Responses({"deleted"}) :
           Settle("softDeletePost", r, softDeletePost_Effects(r),
                  softDeletePost_Result(r))

\* faulty variant: the defaults name the dark theme
DefaultPreferences_Dark ==
    <<Member("theme", JStr("dark")), Member("language", JStr("en")),
      Member("notificationsEnabled", JBool(TRUE))>>

DefaultPreferences ==
    <<Member("theme", JStr("light")), Member("language", JStr("en")),
      Member("notificationsEnabled", JBool(TRUE))>>

createDefaultPreferences_Request(userId) ==
    Fetch("PUT", Url(<<"api", "v1", "users", userId, "preferences">>, NoQuery),
          Stringify(DefaultPreferences), "default")

createDefaultPreferences_Effects(userId, r) ==
    IF Ok(r) THEN <<RevalidatePath(<<"users", userId>>)>> ELSE <<>>

createDefaultPreferences_Result(r) ==
    IF r.kind = "reject" THEN Raise(FetchError)
    ELSE IF ~Ok(r)
         THEN Raise(<<"Failed to create default preferences (">>
                        \o NumToStr(r.status) \o <<")">>)
    ELSE ReturnJson(r, "obj")

createDefaultPreferences_Call ==
    /\ pc = "idle"
    /\ \E userId \in Ids :
           Issue("createDefaultPreferences", [userId |-> userId],
                 createDefaultPreferences_Request(userId))

createDefaultPreferences_Resume ==
    /\ Awaiting("createDefaultPreferences")
    /\ \E r \in Responses(PrefPayloads) :
           Settle("createDefaultPreferences", r,
                  createDefaultPreferences_Effects(args.userId, r),
                  createDefaultPreferences_Result(r))

----------------------------------------------------------------------------

Next ==
    \/ getUsers_Call
    \/ getUsers_Resume
    \/ getAllUsers_Call
    \/ getAllUsers_Resume
    \/ deleteUserFromHome_Call
    \/ deleteUserFromHome_Resume
    \/ deleteUser_Call
    \/ deleteUser_Resume
    \/ getUserById_Call
    \/ getUserById_Resume
    \/ getUserPreferences_Call
    \/ getUserPreferences_Resume
    \/ getUserPosts_Call
    \/ getUserPosts_Resume
    \/ addUser_Call
    \/ addUser_Resume
    \/ addUserAction_Call
    \/ addUserAction_Resume
    \/ toggleUserStatus_Call
    \/ toggleUserStatus_Resume
    \/ createUserPost_Call
    \/ createUserPost_Resume
    \/ softDeletePost_Call
    \/ softDeletePost_Resume
    \/ createDefaultPreferences_Call
    \/ createDefaultPreferences_Resume
    \/ Finish

Spec == Init /\ [][Next]_vars

-----------------------------------------------------------------------------
\* The same functions running behind the framework's fetch cache, against a
\* backend whose user list changes only through the mutations.  A fetch
\* marked `revalidate` may be answered from an entry stored for the same
\* URL at most `revalidate` time units earlier; a fetch marked `no-store`,
\* and every fetch that is not a GET, goes to the backend.  revalidatePath
\* invalidates the entries stored while rendering that route.

revalidate == 30
MaxMutations == 3
\* the clock advances in steps of this many time units
TickStep == 10

\* the backend's user list after v mutations
UsersAt(v) == [i \in 1..v |-> "u1"]
PageAt(v, page) ==
    [content |-> Some(UsersAt(v)), totalPages |-> Some(MaxPages),
     first |-> Absent, last |-> Absent, number |-> Some(page)]

\* the route whose render calls the function
RouteOf(name, a) ==
    IF name = "getUsers" THEN <<"users">>
    ELSE IF name = "getAllUsers" THEN <<>>
    ELSE <<"users", a.id>>

\* what the backend would answer now
BackendAnswers(payload, mayApply) ==
    {Reject, Http(500, "boom", FALSE, Absent)}
        \cup (IF mayApply THEN {Http(200, "json", TRUE, Some(payload))} ELSE {})

\* entries that may answer the request without reaching the backend
Reusable(request) ==
    {e \in dataCache : /\ request.method = "GET"
                       /\ request.cache = "revalidate"
                       /\ e.url = request.url
                       /\ e.valid
                       /\ e.age <= revalidate}

\* an entry for the same URL that was invalidated inside its window
Invalidated(request) ==
    {e \in dataCache : e.url = request.url /\ ~e.valid /\ e.age <= revalidate}

\* the answers the awaited fetch can settle with
Answers(request, payload) ==
    IF Reusable(request) # {} THEN {e.resp : e \in Reusable(request)}
    ELSE BackendAnswers(payload,
                        request.method = "GET" \/ version < MaxMutations)

Store(request, r) ==
    {e \in dataCache : e.url # request.url}
        \cup {[url |-> request.url, route |-> RouteOf(op, args), age |-> 0,
               valid |-> TRUE, resp |-> r]}

\* revalidatePath(path) for every such call among the effects
Purge(cache, more) ==
    {IF \E i \in 1..Len(more) :
            more[i].e = "revalidatePath" /\ more[i].path = e.route
     THEN [e EXCEPT !.valid = FALSE]
     ELSE e : e \in cache}

\* The cache and the backend after the fetch settled with r and the
\* function performed `more`.
Resolve(request, r, more) ==
    IF Reusable(request) # {}
    THEN /\ served' = [fromCache |-> TRUE,
                       age |-> (CHOOSE e \in Reusable(request) : e.resp = r).age,
                       url |-> request.url, bypassed |-> "none"]
         /\ UNCHANGED <<dataCache, version, viewVars>>
    ELSE /\ served' = [fromCache |-> FALSE, age |-> 0, url |-> request.url,
                       bypassed |-> IF Invalidated(request) # {}
                                    THEN "invalidated" ELSE "none"]
         /\ version' = IF request.method # "GET" /\ Ok(r)
                       THEN version + 1 ELSE version
         /\ dataCache' =
                Purge(IF request.method = "GET" /\ request.cache = "revalidate"
                         /\ Ok(r)
                      THEN Store(request, r) ELSE dataCache, more)
         /\ UNCHANGED viewVars

\* time passes between invocations; entries past their window are dropped
Tick ==
    /\ pc = "idle"
    /\ dataCache # {}
    /\ dataCache' = {[e EXCEPT !.age = e.age + TickStep] :
                        e \in {d \in dataCache :
                                  d.age + TickStep <= revalidate}}
    /\ UNCHANGED <<pc, op, args, resp, effects, outcome, version, served,
                   viewVars>>

ListPages == {JUndefined, JObj([page |-> JStr(<<"1">>)])}

Cached_getUsers_Call ==
    /\ pc = "idle"
    /\ \E sp \in ListPages :
           Issue("getUsers", [searchParams |-> sp], getUsers_Request(sp))

Cached_getUsers_Resume ==
    /\ Awaiting("getUsers")
    /\ \E r \in Answers(effects[1],
                         PageAt(version, currentPage(args.searchParams))) :
           /\ Complete("getUsers", r, <<>>,
                       getUsers_Result(args.searchParams, r))
           /\ Resolve(effects[1], r, <<>>)

Cached_getAllUsers_Call ==
    /\ pc = "idle"
    /\ Issue("getAllUsers", JUndefined, getAllUsers_Request)

Cached_getAllUsers_Resume ==
    /\ Awaiting("getAllUsers")
    /\ \E r \in Answers(effects[1], UsersAt(version)) :
           /\ Complete("getAllUsers", r, <<>>, getAllUsers_Result(r))
           /\ Resolve(effects[1], r, <<>>)

Cached_getUserById_Call ==
    /\ pc = "idle"
    /\ Issue("getUserById", [id |-> "1"], getUserById_Request("1"))

Cached_getUserById_Resume ==
    /\ Awaiting("getUserById")
    /\ \E r \in Answers(effects[1], [id |-> "1", name |-> "A"]) :
           /\ Complete("getUserById", r, <<>>, getUserById_Result(r))
           /\ Resolve(effects[1], r, <<>>)

Cached_getUserPreferences_Call ==
    /\ pc = "idle"
    /\ Issue("getUserPreferences", [id |-> "1"],
             getUserPreferences_Request("1"))

Cached_getUserPreferences_Resume ==
    /\ Awaiting("getUserPreferences")
    /\ \E r \in Answers(effects[1], [theme |-> "dark", error |-> Absent]) :
           /\ Complete("getUserPreferences", r, <<>>,
                       getUserPreferences_Result(r))
           /\ Resolve(effects[1], r, <<>>)

Cached_getUserPosts_Call ==
    /\ pc = "idle"
    /\ Issue("getUserPosts", [id |-> "1"], getUserPosts_Request("1"))

Cached_getUserPosts_Resume ==
    /\ Awaiting("getUserPosts")
    /\ \E r \in Answers(effects[1], <<"p1">>) :
           /\ Complete("getUserPosts", r, <<>>, getUserPosts_Result(r))
           /\ Resolve(effects[1], r, <<>>)

Cached_deleteUser_Call ==
    /\ pc = "idle"
    /\ Issue("deleteUser", [id |-> "1"], DeleteRequest("1"))

Cached_deleteUser_Resume ==
    /\ Awaiting("deleteUser")
    /\ \E r \in Answers(effects[1], "deleted") :
           /\ Complete("deleteUser", r, deleteUser_Effects(r),
                       deleteUser_Result(r))
           /\ Resolve(effects[1], r, deleteUser_Effects(r))

Cached_toggleUserStatus_Call ==
    /\ pc = "idle"
    /\ Issue("toggleUserStatus", [id |-> "1", status |-> "INACTIVE"],
             toggleUserStatus_Request("1", "INACTIVE"))

Cached_toggleUserStatus_Resume ==
    /\ Awaiting("toggleUserStatus")
    /\ \E r \in Answers(effects[1], [id |-> "1", name |-> "A"]) :
           /\ Complete("toggleUserStatus", r, toggleUserStatus_Effects(r),
                       toggleUserStatus_Result(r))
           /\ Resolve(effects[1], r, toggleUserStatus_Effects(r))

NewUserForm == <<Entry("username", "pre"), Entry("roles", "USER")>>

Cached_addUser_Call ==
    /\ pc = "idle"
    /\ Issue("addUser", [formData |-> NewUserForm],
             addUser_Request(NewUserForm))

Cached_addUser_Resume ==
    /\ Awaiting("addUser")
    /\ \E r \in Answers(effects[1], [id |-> "2", name |-> "B"]) :
           /\ Complete("addUser", r, addUser_Effects(r), addUser_Result(r))
           /\ Resolve(effects[1], r, addUser_Effects(r))

NextCache ==
    \/ Tick
    \/ Cached_getUsers_Call
    \/ Cached_getUsers_Resume
    \/ Cached_getAllUsers_Call
    \/ Cached_getAllUsers_Resume
    \/ Cached_getUserById_Call
    \/ Cached_getUserById_Resume
    \/ Cached_getUserPreferences_Call
    \/ Cached_getUserPreferences_Resume
    \/ Cached_getUserPosts_Call
    \/ Cached_getUserPosts_Resume
    \/ Cached_deleteUser_Call
    \/ Cached_deleteUser_Resume
    \/ Cached_toggleUserStatus_Call
    \/ Cached_toggleUserStatus_Resume
    \/ Cached_addUser_Call
    \/ Cached_addUser_Resume
    \/ Finish

SpecCache == Init /\ [][NextCache]_vars


----------------------------------------------------------------------------
(* Properties *)

-----------------------------------------------------------------------------
\* The user detail page: it starts getUserById, getUserPreferences and
\* getUserPosts together and awaits Promise.all of the three.  The reads
\* settle in any order; the await ends when all three have returned or as
\* soon as one has raised.

ReadNames == {"user", "prefs", "posts"}
NotFound == [t |-> "notFound"]

UserPage_Call ==
    /\ pc = "idle"
    /\ \E id \in Ids \ {""} :
           /\ pc' = "awaiting"
           /\ op' = "UserPage"
           /\ args' = [id |-> id]
           /\ effects' = <<getUserById_Request(id),
                           getUserPreferences_Request(id),
                           getUserPosts_Request(id)>>
    /\ resp' = [k \in ReadNames |-> NoResp]
    /\ reads' = [k \in ReadNames |-> Pending]
    /\ outcome' = Pending
    /\ UNCHANGED <<cacheVars, sessions, backendUsers>>

\* one of the three reads settles
UserPage_Read ==
    /\ pc = "awaiting"
    /\ op = "UserPage"
    /\ \A k \in ReadNames : reads[k].kind # "raise"
    /\ \/ /\ reads.user = Pending
          /\ \E r \in Responses(UserPayloads) :
                 /\ resp' = [resp EXCEPT !.user = r]
                 /\ reads' = [reads EXCEPT !.user = getUserById_Result(r)]
       \/ /\ reads.prefs = Pending
          /\ \E r \in Responses(PrefPayloads) :
                 /\ resp' = [resp EXCEPT !.prefs = r]
                 /\ reads' = [reads EXCEPT
                                 !.prefs = getUserPreferences_Result(r)]
       \/ /\ reads.posts = Pending
          /\ \E r \in Responses(PostPayloads) :
                 /\ resp' = [resp EXCEPT !.posts = r]
                 /\ reads' = [reads EXCEPT !.posts = getUserPosts_Result(r)]
    /\ UNCHANGED <<pc, op, args, effects, outcome, cacheVars, sessions,
                   backendUsers>>

\* await Promise.all([...]) ends; if (!user) return notFound(); else the
\* page is rendered from the three values
UserPage_Render ==
    /\ pc = "awaiting"
    /\ op = "UserPage"
    /\ \/ \E k \in ReadNames : reads[k].kind = "raise"
       \/ \A k \in ReadNames : reads[k].kind = "return"
    /\ pc' = "done"
    /\ outcome' =
           IF \E k \in ReadNames : reads[k].kind = "raise"
           THEN reads[CHOOSE k \in ReadNames : reads[k].kind = "raise"]
           ELSE IF reads.user.value = JNull THEN Return(NotFound)
           ELSE Return(JObj([user |-> reads.user.value,
                             prefs |-> reads.prefs.value,
                             posts |-> reads.posts.value]))
    /\ UNCHANGED <<op, args, resp, effects, cacheVars, viewVars>>

NextPage ==
    \/ UserPage_Call
    \/ UserPage_Read
    \/ UserPage_Render
    \/ Finish

SpecPage == Init /\ [][NextPage]_vars

-----------------------------------------------------------------------------

\* The backend's users as this layer writes them: addUser creates a user
\* from the POST body, and the toggle forms of the list page, open in
\* several sessions at once, PATCH a user's status.  The backend applies an
\* accepted request as sent; `version` counts the applied writes.

Sessions == {"a", "b"}

\* the object a JSON body carries
Written(body) ==
    [k \in {body.v[i].key : i \in DOMAIN body.v} |->
        (body.v[CHOOSE i \in DOMAIN body.v : body.v[i].key = k]).val]

WrittenForms ==
    {<<>>,
     <<Entry("username", "pre"), Entry("roles", "ADMIN"),
       Entry("roles", "USER")>>,
     <<Entry("username", "pre"), Entry("status", "BANNED")>>}

Backend_addUser_Call ==
    /\ pc = "idle"
    /\ \E fd \in WrittenForms :
           Issue("addUser", [formData |-> fd], addUser_Request(fd))

Backend_addUser_Resume ==
    /\ Awaiting("addUser")
    /\ LET newId == IF "1" \in DOMAIN backendUsers THEN "2" ELSE "1"
       IN \E r \in BackendAnswers([id |-> newId, name |-> "A"],
                                   /\ version < MaxMutations
                                   /\ DOMAIN backendUsers # Ids \ {""}) :
              /\ Complete("addUser", r, addUser_Effects(r), addUser_Result(r))
              /\ backendUsers' =
                     IF Ok(r)
                     THEN (newId :> Written(effects[1].body)) @@ backendUsers
                     ELSE backendUsers
              /\ version' = IF Ok(r) THEN version + 1 ELSE version
    /\ UNCHANGED <<dataCache, served, reads, sessions>>

\* a session renders the list page: it shows every user's status
Session_Render ==
    \E s \in Sessions :
        /\ IF s \in DOMAIN sessions
           THEN sessions[s].st \in {"viewing", "settled"}
           ELSE TRUE
        /\ DOMAIN backendUsers # {}
        /\ sessions' =
               (s :> [st |-> "viewing", seen |-> version,
                      view |-> [id \in DOMAIN backendUsers |->
                                   backendUsers[id].status]])
                   @@ sessions
        /\ UNCHANGED <<pc, op, args, resp, effects, outcome, cacheVars, reads,
                       backendUsers>>

\* faulty variant: the two branches are exchanged
newStatus_Same(status) ==
    IF status = JStr("ACTIVE") THEN "ACTIVE" ELSE "INACTIVE"

\* user.status === "ACTIVE" ? "INACTIVE" : "ACTIVE"
newStatus(status) ==
    IF status = JStr("ACTIVE") THEN "INACTIVE" ELSE "ACTIVE"

\* the toggle form of a rendered user is submitted: toggleUserStatus is
\* called with the status computed from the rendered one
Session_Submit ==
    \E s \in DOMAIN sessions :
        /\ sessions[s].st = "viewing"
        /\ \E id \in DOMAIN sessions[s].view :
               sessions' =
                   [sessions EXCEPT ![s] =
                       [st |-> "inflight", seen |-> @.seen, view |-> @.view,
                        id |-> id,
                        request |->
                            toggleUserStatus_Request(id, newStatus(@.view[id]))]]
        /\ UNCHANGED <<pc, op, args, resp, effects, outcome, cacheVars, reads,
                       backendUsers>>

\* the backend answers a session's PATCH, having applied it if it answers OK
Session_Settle ==
    \E s \in DOMAIN sessions :
        /\ sessions[s].st = "inflight"
        /\ \E r \in BackendAnswers([id |-> sessions[s].id, name |-> "A"],
                                    version < MaxMutations) :
               /\ sessions' =
                      [sessions EXCEPT ![s] =
                          [st |-> "settled", seen |-> @.seen, view |-> @.view,
                           id |-> @.id, request |-> @.request,
                           resp |-> r,
                           result |-> toggleUserStatus_Result(r)]]
               /\ backendUsers' =
                      IF Ok(r)
                      THEN [backendUsers EXCEPT ![sessions[s].id] =
                               Written(sessions[s].request.body) @@ @]
                      ELSE backendUsers
               /\ version' = IF Ok(r) THEN version + 1 ELSE version
        /\ UNCHANGED <<pc, op, args, resp, effects, outcome, dataCache, served,
                       reads>>

NextBackend ==
    \/ Backend_addUser_Call
    \/ Backend_addUser_Resume
    \/ Session_Render
    \/ Session_Submit
    \/ Session_Settle
    \/ Finish

SpecBackend == Init /\ [][NextBackend]_vars

-----------------------------------------------------------------------------

Done(name) == pc = "done" /\ op = name

FetchCount == Cardinality({i \in 1..Len(effects) : effects[i].e = "fetch"})

Revalidated(path) ==
    \E i \in 1..Len(effects) :
        effects[i].e = "revalidatePath" /\ effects[i].path = path

\* some path strictly below "/users/" has been revalidated
RevalidatedBelowUsers ==
    \E i \in 1..Len(effects) :
        /\ effects[i].e = "revalidatePath"
        /\ Len(effects[i].path) = 2
        /\ effects[i].path[1] = "users"

Malformed(r) == Ok(r) /\ ~r.parses

\* C1: getUserById returns the parsed payload on an OK response, and null
\* (no raise) on a non-OK response or a rejected fetch, for every id.
C1_GetUserByIdPayloadOrNull ==
    Done("getUserById") =>
        /\ (Ok(resp) /\ resp.parses) => outcome = Return(JObj(resp.data[1]))
        /\ (resp.kind = "http" /\ ~Ok(resp)) => outcome = Return(JNull)
        /\ resp.kind = "reject" => outcome = Return(JNull)

C1_Witness ==
    /\ Done("getUserById")
    /\ resp.kind = "reject"
    /\ outcome = Return(JNull)

\* C2: in getUserById, getUserPreferences and getUserPosts an OK response
\* whose body cannot be parsed is caught and becomes null (the empty
\* sequence for getUserPosts); the operation does not raise.
C2_MalformedIsCaught ==
    (/\ pc = "done"
     /\ op \in {"getUserById", "getUserPreferences", "getUserPosts"}
     /\ Malformed(resp))
        => /\ outcome.kind = "return"
           /\ outcome.value =
                  (IF op = "getUserPosts" THEN JArr(<<>>) ELSE JNull)

\* C3: every mutating operation that succeeds signals invalidation of its
\* view path: "/users" for the user-scoped ones, "/users/{id}" of the owning
\* user for the post-scoped and preference-scoped ones.
C3_MutationInvalidatesItsView ==
    (pc = "done" /\ Ok(resp)) =>
        /\ op \in {"deleteUser", "deleteUserFromHome", "addUser",
                   "toggleUserStatus"} => Revalidated(<<"users">>)
        /\ op \in {"createUserPost", "createDefaultPreferences"}
               => Revalidated(<<"users", args.userId>>)
        /\ op = "softDeletePost"
               => \E id \in Ids \ {""} : Revalidated(<<"users", id>>)

MutatingViaPostPatchDelete ==
    {"addUser", "createUserPost", "toggleUserStatus", "deleteUser",
     "deleteUserFromHome", "softDeletePost"}

PageAbsentOrNonNumeric(searchParams) ==
    \/ searchParams.t = "undefined"
    \/ searchParams.v.page.t = "undefined"
    \/ Number(searchParams.v.page).t = "nan"

\* C5: with the page parameter absent or non-numeric, getUsers asks the
\* backend for page=0 and, when the answer omits `number`, returns
\* pageNumber 0.
C5_DefaultPageIsZero ==
    (op = "getUsers" /\ PageAbsentOrNonNumeric(args.searchParams)) =>
        /\ effects[1].e = "fetch"
        /\ effects[1].url.query[1] = Member("page", <<"0">>)
        /\ (pc = "done" /\ Ok(resp) /\ resp.parses
                /\ IsAbsent(resp.data[1].number))
               => outcome.value.v.pageNumber = 0

C5_Witness ==
    /\ Done("getUsers")
    /\ args.searchParams.t = "obj"
    /\ args.searchParams.v.page = JStr(<<"a">>)
    /\ Ok(resp) /\ resp.parses
    /\ IsAbsent(resp.data[1].number)
    /\ outcome.value.v.pageNumber = 0

\* C6: for every page index p >= 0 and every OK answer that omits `last`,
\* the returned page has isLast = (pageNumber + 1 >= totalPages).
C6_IsLastDerivedFromReturnedPage ==
    (/\ Done("getUsers")
     /\ currentPage(args.searchParams) >= 0
     /\ Ok(resp) /\ resp.parses
     /\ IsAbsent(resp.data[1].last))
        => LET page == outcome.value.v
           IN page.isLast = (page.pageNumber + 1 >= page.totalPages)

\* C7: an OK answer carrying content, totalPages, first, last and number
\* yields exactly {users: content, totalPages, isFirst: first, isLast: last,
\* pageNumber: number, size: 5}; a non-OK answer makes getUsers raise.
C7_GetUsersNormalizes ==
    Done("getUsers") =>
        /\ (/\ Ok(resp) /\ resp.parses
            /\ \A f \in {"content", "totalPages", "first", "last", "number"} :
                   ~IsAbsent(resp.data[1][f]))
               => outcome =
                      Return(JObj([users |-> resp.data[1].content[1],
                                   totalPages |-> resp.data[1].totalPages[1],
                                   isFirst |-> resp.data[1].first[1],
                                   isLast |-> resp.data[1].last[1],
                                   pageNumber |-> resp.data[1].number[1],
                                   size |-> 5]))
        /\ (resp.kind = "http" /\ ~Ok(resp)) => outcome.kind = "raise"

C7_Witness ==
    /\ Done("getUsers")
    /\ Ok(resp) /\ resp.parses
    /\ resp.data[1] = [content |-> Some(<<"u1">>), totalPages |-> Some(2),
                       first |-> Some(TRUE), last |-> Some(FALSE),
                       number |-> Some(0)]
    /\ outcome.kind = "return"
    /\ outcome.value.v.isFirst /\ ~outcome.value.v.isLast

\* C8: deleteUser with an empty id raises "User ID required" without any
\* network call, cache invalidation or navigation.
C8_DeleteUserEmptyId ==
    (op = "deleteUser" /\ args.id = "") =>
        /\ pc = "done"
        /\ outcome = Raise(<<"User ID required">>)
        /\ effects = <<>>

C8_Witness ==
    /\ Done("deleteUser")
    /\ args.id = ""
    /\ outcome.kind = "raise"

\* C9: for a non-empty id and an OK answer deleteUser issues exactly one
\* DELETE to /api/v1/users/{id}, then invalidates "/users", then navigates
\* to "/users?page=0", in that order.
C9_DeleteUserOrder ==
    (Done("deleteUser") /\ args.id # "" /\ Ok(resp)) =>
        /\ Len(effects) = 3
        /\ effects[1].e = "fetch"
        /\ effects[1].method = "DELETE"
        /\ effects[1].url = Url(<<"api", "v1", "users", args.id>>, NoQuery)
        /\ effects[2] = RevalidatePath(<<"users">>)
        /\ effects[3] = Redirect(Url(<<"users">>, <<Member("page", <<"0">>)>>))

C9_Witness ==
    /\ Done("deleteUser")
    /\ args.id = "1"
    /\ Ok(resp)
    /\ Len(effects) = 3

\* the form carries a username, an email, a name and a role
Populated(formData) ==
    \A n \in {"username", "email", "name", "roles"} :
        \E i \in 1..Len(formData) : formData[i].name = n

\* C10: addUser never raises; it issues one POST to /api/v1/users with body
\* {username, email, name, roles, status: "ACTIVE"} and returns
\* {success: true} on an OK answer, {success: false, error: "Failed to add
\* user"} on a non-OK answer or a rejected fetch.
C10_AddUserNeverRaises ==
    op = "addUser" =>
        /\ FetchCount = 1
        /\ effects[1].method = "POST"
        /\ effects[1].url = Url(<<"api", "v1", "users">>, NoQuery)
        /\ effects[1].body =
               JStr(<<Member("username", FormGet(args.formData, "username")),
                      Member("email", FormGet(args.formData, "email")),
                      Member("name", FormGet(args.formData, "name")),
                      Member("roles",
                             JArr(FormGetAll(args.formData, "roles"))),
                      Member("status", JStr("ACTIVE"))>>)
        /\ pc = "done" =>
               /\ outcome.kind = "return"
               /\ Ok(resp) => outcome.value = JObj([success |-> TRUE])
               /\ ~Ok(resp) =>
                      outcome.value =
                          JObj([success |-> FALSE,
                                error |-> "Failed to add user"])

C10_Witness ==
    /\ Done("addUser")
    /\ Populated(args.formData)
    /\ resp.kind = "reject"
    /\ outcome.kind = "return"
    /\ ~outcome.value.v.success

\* C11: toggleUserStatus(id, s) issues exactly one PATCH to
\* /api/v1/users/{id} with body {"status": s}; on an OK answer it
\* invalidates "/users" and returns the backend's user payload.
C11_ToggleSendsPatch ==
    op = "toggleUserStatus" =>
        /\ FetchCount = 1
        /\ effects[1].e = "fetch"
        /\ effects[1].method = "PATCH"
        /\ effects[1].url = Url(<<"api", "v1", "users", args.id>>, NoQuery)
        /\ effects[1].body = JStr(<<Member("status", JStr(args.status))>>)
        /\ (pc = "done" /\ Ok(resp)) =>
               /\ Revalidated(<<"users">>)
               /\ resp.parses => outcome = Return(JObj(resp.data[1]))

C11_Witness ==
    /\ Done("toggleUserStatus")
    /\ args = [id |-> "1", status |-> "INACTIVE"]
    /\ Ok(resp) /\ resp.parses
    /\ outcome.kind = "return"
    /\ Len(effects) = 2

\* C12 as stated: getUserPreferences returns null on a non-OK answer, on a
\* rejected fetch and on an OK answer whose payload contains an error field;
\* otherwise it returns the payload.
C12_NullOnAnyErrorField ==
    Done("getUserPreferences") =>
        /\ ~Ok(resp) => outcome = Return(JNull)
        /\ (Ok(resp) /\ resp.parses) =>
               outcome = (IF ~IsAbsent(resp.data[1].error)
                          THEN Return(JNull)
                          ELSE Return(JObj(resp.data[1])))

\* C12 amended: getUserPreferences returns null on a non-OK answer, on a
\* rejected fetch, on an OK answer whose body cannot be parsed and on an OK
\* answer whose payload carries a truthy error field; an OK payload without
\* an error field, or with a falsy one (the empty string), is returned.
C12_NullOnTruthyErrorField ==
    Done("getUserPreferences") =>
        /\ ~Ok(resp) => outcome = Return(JNull)
        /\ Malformed(resp) => outcome = Return(JNull)
        /\ (Ok(resp) /\ resp.parses) =>
               outcome = (IF resp.data[1].error \notin {Absent, Some("")}
                          THEN Return(JNull)
                          ELSE Return(JObj(resp.data[1])))

C12_Witness ==
    /\ Done("getUserPreferences")
    /\ Ok(resp) /\ resp.parses
    /\ resp.data[1].error = Some("Not found")
    /\ outcome = Return(JNull)

\* C13: getUserPosts returns the empty sequence, never null and never a
\* raised error, whenever the answer is not OK or the fetch is rejected.
C13_PostsEmptyOnFailure ==
    (Done("getUserPosts") /\ ~Ok(resp)) =>
        /\ outcome.kind = "return"
        /\ outcome.value.t = "arr"
        /\ outcome.value.v = <<>>

C13_Witness ==
    /\ Done("getUserPosts")
    /\ resp.kind = "http" /\ resp.status = 404
    /\ outcome = Return(JArr(<<>>))

Redirects == {i \in 1..Len(effects) : effects[i].e = "redirect"}

\* C14: addUserAction navigates exactly once, after addUser has completed:
\* to "/users/add?success=true" if and only if addUser succeeded, otherwise
\* to "/users/add?error=<encoded message>"; also when the backend rejected
\* the request or the fetch failed.
C14_AddUserActionAlwaysNavigates ==
    Done("addUserAction") =>
        /\ Redirects = {Len(effects)}
        /\ outcome.kind # "raise"
        /\ effects[Len(effects)].url =
               (IF Ok(resp)
                THEN Url(<<"users", "add">>, <<Member("success", <<"true">>)>>)
                ELSE Url(<<"users", "add">>,
                         <<Member("error",
                                  <<"Failed", "%20", "to", "%20", "add",
                                    "%20", "user">>)>>))

C14_Witness ==
    /\ Done("addUserAction")
    /\ resp.kind = "reject"
    /\ Redirects = {2}

\* sub occurs in s as a run of consecutive elements
Contains(s, sub) ==
    \E i \in 0..(Len(s) - Len(sub)) : SubSeq(s, i + 1, i + Len(sub)) = sub

OnlyTheFetch == Len(effects) = 1 /\ effects[1].e = "fetch"

\* C15: on a non-OK answer to the DELETE, deleteUser and deleteUserFromHome
\* raise an error whose message carries the HTTP status code, and neither
\* invalidate nor navigate.
C15_DeleteFailureCarriesStatus ==
    (/\ pc = "done"
     /\ op \in {"deleteUser", "deleteUserFromHome"}
     /\ resp.kind = "http" /\ ~Ok(resp))
        => /\ outcome.kind = "raise"
           /\ Contains(outcome.message, NumToStr(resp.status))
           /\ OnlyTheFetch

C15_Witness ==
    /\ Done("deleteUserFromHome")
    /\ resp.kind = "http" /\ resp.status = 404
    /\ outcome = Raise(<<"Delete failed (", "4", "0", "4", ")">>)

\* C16: on a non-OK answer to the PATCH, toggleUserStatus raises an error
\* whose message includes the raw text of the answer, and "/users" is not
\* invalidated.
C16_ToggleFailureCarriesText ==
    (Done("toggleUserStatus") /\ resp.kind = "http" /\ ~Ok(resp)) =>
        /\ outcome.kind = "raise"
        /\ \E i \in 1..Len(outcome.message) : outcome.message[i] = resp.text
        /\ ~Revalidated(<<"users">>)

C16_Witness ==
    /\ Done("toggleUserStatus")
    /\ resp.kind = "http" /\ resp.status = 500 /\ resp.text = "boom"
    /\ outcome = Raise(<<"Failed to update status: ", "boom">>)

WritesOtherThanAddUser ==
    {"deleteUser", "deleteUserFromHome", "toggleUserStatus",
     "createUserPost", "softDeletePost", "createDefaultPreferences"}

\* C17: every write operation other than addUser re-raises a rejected fetch
\* to its caller, and then neither invalidates nor navigates.
C17_WritesRethrowTransportFailure ==
    (pc = "done" /\ op \in WritesOtherThanAddUser /\ resp.kind = "reject")
        => /\ outcome = Raise(FetchError)
           /\ OnlyTheFetch

C17_Witness ==
    /\ Done("createUserPost")
    /\ resp.kind = "reject"
    /\ outcome.kind = "raise"

\* a required identifier or field of the invocation is empty or missing
RequiredInputMissing ==
    \/ /\ op \in {"deleteUser", "deleteUserFromHome", "getUserById",
                  "getUserPreferences", "getUserPosts", "toggleUserStatus"}
       /\ args.id = ""
    \/ /\ op \in {"createUserPost", "createDefaultPreferences"}
       /\ args.userId = ""
    \/ /\ op = "createUserPost"
       /\ (args.title = "" \/ args.content = "")
    \/ /\ op = "softDeletePost"
       /\ args.postId = ""
    \/ /\ op \in {"addUser", "addUserAction"}
       /\ \E n \in {"username", "email", "name"} :
              FormGet(args.formData, n) \in {JNull, JStr("")}

\* C18: no operation issues an HTTP request when a required identifier or
\* field (user id, post id, username, email, name, title, content) is empty
\* or missing.
C18_NoRequestOnMissingInput ==
    RequiredInputMissing => FetchCount = 0

\* C19: under SpecCache, a list render that returns a page returns the
\* backend's user list as it is after every mutation applied so far: it is
\* never an answer stored before a successful deleteUser, toggleUserStatus
\* or addUser, however recently it was stored.
C19_ListReflectsMutations ==
    (Done("getUsers") /\ outcome.kind = "return")
        => outcome.value.v.users = UsersAt(version)

\* a list render after a mutation finds the entry for its page still inside
\* its window but invalidated, and goes to the backend
C19_Witness ==
    /\ Done("getUsers")
    /\ outcome.kind = "return"
    /\ version > 0
    /\ ~served.fromCache
    /\ served.bypassed = "invalidated"

\* C20: under SpecCache, getAllUsers, getUserById, getUserPreferences and
\* getUserPosts are never answered from the cache, and an answer from the
\* cache goes only to getUsers, for the URL of the requested page, from an
\* entry stored at most `revalidate` time units earlier.
C20_OnlyGetUsersReuses ==
    (pc = "done" /\ served.fromCache)
        => /\ op = "getUsers"
           /\ served.url = effects[1].url
           /\ served.age <= revalidate

\* getUsers answered from an entry stored exactly `revalidate` units earlier
C20_Witness ==
    /\ Done("getUsers")
    /\ served.fromCache
    /\ served.age = revalidate
    /\ outcome.kind = "return"

Revalidations == {i \in 1..Len(effects) : effects[i].e = "revalidatePath"}

\* C22: createUserPost issues one POST to /api/v1/users/{userId}/posts with
\* body {title, content}; it returns true and invalidates "/users/{userId}"
\* exactly when the backend answers OK, and otherwise raises having
\* invalidated nothing.
C22_CreateUserPost ==
    Done("createUserPost") =>
        /\ FetchCount = 1
        /\ effects[1] =
               Fetch("POST",
                     Url(<<"api", "v1", "users", args.userId, "posts">>, NoQuery),
                     Stringify(<<Member("title", JStr(args.title)),
                                 Member("content", JStr(args.content))>>),
                     "default")
        /\ IF Ok(resp)
           THEN /\ outcome = Return(JBool(TRUE))
                /\ Revalidated(<<"users", args.userId>>)
                /\ Cardinality(Revalidations) = 1
           ELSE /\ outcome.kind = "raise"
                /\ Revalidations = {}

\* the backend refused the post: raise, nothing invalidated
C22_Witness ==
    /\ Done("createUserPost")
    /\ resp.kind = "http"
    /\ ~Ok(resp)
    /\ args.userId = "1"
    /\ outcome = Raise(<<"Failed to create post">>)

\* C23: createDefaultPreferences issues one PUT to
\* /api/v1/users/{userId}/preferences whose body is always {theme: "light",
\* language: "en", notificationsEnabled: true}; on an OK answer it
\* invalidates "/users/{userId}" and returns the parsed payload, and on a
\* non-OK answer it raises.
C23_CreateDefaultPreferences ==
    Done("createDefaultPreferences") =>
        /\ FetchCount = 1
        /\ effects[1].method = "PUT"
        /\ effects[1].url =
               Url(<<"api", "v1", "users", args.userId, "preferences">>, NoQuery)
        /\ effects[1].body =
               Stringify(<<Member("theme", JStr("light")),
                           Member("language", JStr("en")),
                           Member("notificationsEnabled", JBool(TRUE))>>)
        /\ Ok(resp) => Revalidated(<<"users", args.userId>>)
        /\ (Ok(resp) /\ resp.parses) => outcome = Return(JObj(resp.data[1]))
        /\ (resp.kind = "http" /\ ~Ok(resp)) => outcome.kind = "raise"

C23_Witness ==
    /\ Done("createDefaultPreferences")
    /\ Ok(resp)
    /\ resp.parses
    /\ args.userId = "2"
    /\ outcome.kind = "return"

\* an invocation stopped by its own validation before the network call
StoppedByValidation ==
    /\ op \in {"deleteUser", "deleteUserFromHome"}
    /\ args.id = ""

\* C24: no invocation issues more than one HTTP request, and a finished
\* invocation has issued exactly one unless its own validation stopped it
\* before the network call, whatever the backend answered.
C24_SingleRoundTrip ==
    /\ FetchCount <= 1
    /\ pc \in {"awaiting", "done"} =>
           (FetchCount = 1 <=> ~StoppedByValidation)

\* a failed write has ended with its single request issued
C24_Witness ==
    /\ Done("deleteUserFromHome")
    /\ ~Ok(resp)
    /\ outcome.kind = "raise"
    /\ FetchCount = 1

\* C26: an invocation of toggleUserStatus, createDefaultPreferences,
\* createUserPost, softDeletePost, deleteUser or deleteUserFromHome that
\* ends by raising has signalled no revalidation, also when the body of an
\* OK response cannot be parsed.
C26_NoInvalidationBeforeRaise ==
    (/\ pc = "done"
     /\ op \in {"toggleUserStatus", "createDefaultPreferences",
                "createUserPost", "softDeletePost", "deleteUser",
                "deleteUserFromHome"}
     /\ outcome.kind = "raise")
        => Revalidations = {}

\* C21: under SpecPage, whenever the user read has returned, the detail
\* page ends by rendering, whatever the preferences and posts reads did and
\* in whatever order the three settled: not-found if and only if the user
\* read returned null, and the user with the available data otherwise.
C21_DetailPageDegradesGracefully ==
    (Done("UserPage") /\ reads.user.kind = "return")
        => /\ outcome.kind = "return"
           /\ outcome.value = NotFound <=> reads.user = Return(JNull)

\* C25: under SpecBackend, every user the backend holds has a roles array
\* (possibly empty) and a status of ACTIVE or INACTIVE, after any sequence
\* of addUser calls and toggle submissions; and the body addUser sends
\* always says ACTIVE, whatever the form contains.
C25_WrittenUsersWellFormed ==
    /\ \A id \in DOMAIN backendUsers :
           /\ backendUsers[id].roles.t = "arr"
           /\ backendUsers[id].status \in {JStr("ACTIVE"), JStr("INACTIVE")}
    /\ (op = "addUser" /\ pc \in {"awaiting", "done"})
           => Written(effects[1].body).status = JStr("ACTIVE")

\* a user was created from a form that names another status and no role,
\* and a user has been toggled
C25_Witness ==
    /\ Done("addUser")
    /\ Ok(resp)
    /\ FormGet(args.formData, "status") = JStr("BANNED")
    /\ FormGetAll(args.formData, "roles") = <<>>
    /\ \E id \in DOMAIN backendUsers :
           backendUsers[id].status = JStr("INACTIVE")

\* both sessions submitted the toggle of the same user from renders of the
\* same backend state, and both requests were answered
BothToggled(a, b, id) ==
    /\ a # b
    /\ sessions[a].st = "settled"
    /\ sessions[b].st = "settled"
    /\ sessions[a].id = id
    /\ sessions[b].id = id
    /\ sessions[a].seen = sessions[b].seen

\* C28: under SpecBackend, when two sessions rendered the same user with
\* the same status S and both submitted its toggle form, then in every
\* interleaving both sent the same PATCH, and if the backend applied at
\* least one of them the user's status is the opposite of S.
C28_ToggleIdempotentUnderStaleViews ==
    \A a \in DOMAIN sessions, b \in DOMAIN sessions, id \in DOMAIN backendUsers :
        BothToggled(a, b, id) =>
            /\ sessions[a].request = sessions[b].request
            /\ sessions[a].request.method = "PATCH"
            /\ (Ok(sessions[a].resp) \/ Ok(sessions[b].resp)) =>
                   /\ backendUsers[id].status # sessions[a].view[id]
                   /\ backendUsers[id].status
                          \in {JStr("ACTIVE"), JStr("INACTIVE")}

\* both PATCHes were applied, one after the other
C28_Witness ==
    /\ DOMAIN sessions = Sessions
    /\ BothToggled("a", "b", "1")
    /\ Ok(sessions["a"].resp)
    /\ Ok(sessions["b"].resp)
    /\ sessions["a"].view["1"] = JStr("ACTIVE")
    /\ backendUsers["1"].status = JStr("INACTIVE")

\* C27: the page index in the request of getUsers is a non-negative
\* integer, for every page parameter string.
C27_PageIndexNonNegative ==
    (op = "getUsers" /\ pc \in {"awaiting", "done"})
        => /\ effects[1].url.query[1].key = "page"
           /\ AllDigits(effects[1].url.query[1].val)

\* the effects of deleteUser without its navigation
WithoutRedirect(log) == SelectSeq(log, LAMBDA x : x.e # "redirect")

\* C29: deleteUser and deleteUserFromHome issue the same request, raise
\* under the same conditions and signal the same invalidation, deleteUser
\* navigating to "/users?page=0" in addition; and the getUsers of lib/api
\* sends the same request and returns the same page as the getUsers of
\* userActions, for every input and every backend answer.
C29_DuplicatesAgree ==
    /\ (Done("deleteUser") /\ FetchCount = 1) =>
           /\ outcome = deleteUserFromHome_Result(resp)
           /\ WithoutRedirect(Tail(effects)) = deleteUserFromHome_Effects(resp)
    /\ (Done("deleteUserFromHome") /\ FetchCount = 1) =>
           /\ outcome = deleteUser_Result(resp)
           /\ Tail(effects) = WithoutRedirect(deleteUser_Effects(resp))
    /\ (op \in {"deleteUser", "deleteUserFromHome"} /\ pc = "done"
           /\ FetchCount = 0) => outcome = Raise(<<"User ID required">>)
    /\ (op = "getUsers" /\ pc \in {"awaiting", "done"}) =>
           /\ effects[1] = lib_getUsers_Request(args.searchParams)
           /\ Done("getUsers") =>
                  outcome = lib_getUsers_Result(args.searchParams, resp)

====
